---- MODULE Spec2Model ----
(***************************************************************************)
(* State-machine model of the GrotButton firmware (src/src/main.cpp):      *)
(* the boot sequence (setup), the connection manager (setupWiFi), the      *)
(* button interrupt handler (buttonISR), the main loop (loop) with its     *)
(* dispatch queue and idle controller, the webhook dispatcher              *)
(* (sendWebhookRequest), the configuration save handler (handleSave) and   *)
(* the sleep entry (goToSleep).                                            *)
(*                                                                         *)
(* The main thread is a program counter pc walking through the statements  *)
(* of setup() and loop(); the interrupt handler is one atomic action that  *)
(* may run between any two main-thread steps while the interrupt is        *)
(* attached.  Time (millis()) is the variable now, advanced by Tick: the   *)
(* delay() calls and the blocking network calls let the clock advance      *)
(* between any two steps, by any amount, and do not force it to.           *)
(* Locals (wakeup_reason, buttonState, fullAttempt, attempts) return to    *)
(* their initial value when their function returns.  Variables marked      *)
(* "history" record what happened and are read by no action's guard        *)
(* except the bounds.  Strings are sequences of one-character strings.     *)
(***************************************************************************)
EXTENDS Integers, Sequences, FiniteSets, TLC

VARIABLES
    pc,                   \* position of the main thread
    now,                  \* millis()
    ticks,                \* history: advances of the clock in this power cycle
    wakeup_reason,        \* setup(): esp_sleep_get_wakeup_cause()
    buttonState,          \* setup(): digitalRead(BUTTON_PIN) of line 181
    buttonAttached,       \* attachInterrupt / detachInterrupt on BUTTON_PIN
    wakeSource,           \* result of esp_deep_sleep_enable_gpio_wakeup
    prefs,                \* Preferences namespace "grotbot"
    cfg,                  \* ssid, password, webhookUrl, webhookMethod, ...
    configSaved,
    pendingRequests,
    requestInProgress,
    lastButtonPressTime,
    lastActivityTime,
    wifiMode,             \* WiFi.getMode()
    wifiStatus,           \* WiFi.status()
    dnsStarted,           \* dnsServer.start
    serverStarted,        \* server.begin
    fullAttempt,          \* setupWiFi(): outer loop counter
    attempts,             \* setupWiFi(): poll counter of the cycle
    currentMode,          \* loop(): local copy of WiFi.getMode()
    reg,                  \* loop(): register holding pendingRequests in "--"
    tIdle,                \* loop(): first operand read of line 247
    enqueued,             \* history: units of work added (wake seed + accepted triggers)
    dispatched,           \* history: calls of sendWebhookRequest made by loop()
    lastTriggerAt,        \* history: time of the latest run of buttonISR
    lastAcceptedAt,       \* history: time of the latest run that added a unit of work
    httpResponseCode,     \* sendWebhookRequest(): local of line 594
    requests,             \* history: the HTTP requests issued, in order
    portalLog,            \* history: what the latest server.handleClient() served
    wakeCalls             \* history: calls of esp_deep_sleep_enable_gpio_wakeup

vars == <<pc, now, ticks, wakeup_reason, buttonState, buttonAttached, wakeSource, prefs, cfg,
          configSaved, pendingRequests, requestInProgress, lastButtonPressTime,
          lastActivityTime, wifiMode, wifiStatus, dnsStarted, serverStarted,
          fullAttempt, attempts, currentMode, reg, tIdle, enqueued, dispatched,
          lastTriggerAt, lastAcceptedAt, httpResponseCode, requests, portalLog,
          wakeCalls>>

setupLocals == <<wakeup_reason, buttonState>>
hwVars == <<buttonAttached, wakeSource>>
netVars == <<wifiMode, wifiStatus, dnsStarted, serverStarted>>
cfgVars == <<prefs, cfg, configSaved>>
isrVars == <<pendingRequests, lastButtonPressTime, lastActivityTime>>
wifiLocals == <<fullAttempt, attempts>>
loopLocals == <<currentMode, reg, tIdle>>
runVars == <<enqueued, dispatched, lastTriggerAt, lastAcceptedAt>>
traceVars == <<httpResponseCode, requests, portalLog, wakeCalls>>
histVars == <<runVars, traceVars>>

(***************************************************************************)
(* Program constants                                                       *)
(***************************************************************************)
MAX_CONNECTION_ATTEMPTS == 10
MAX_FULL_CONNECTION_ATTEMPTS == 3
SLEEP_TIMEOUT == 60000
DEBOUNCE_TIME == 300
BootDelay == 1000

(***************************************************************************)
(* Bounds of the model                                                     *)
(***************************************************************************)
MaxTicks == 5             \* advances of the clock per power cycle
MaxPresses == 3           \* units of work added per power cycle
Deltas == {100, SLEEP_TIMEOUT}         \* amounts by which the clock advances

(***************************************************************************)
(* unsigned long arithmetic: a difference of two clock readings wraps      *)
(* around.  The word is modelled with 30 bits (TLC's integers are         *)
(* 32-bit signed); every clock value stays far below half                  *)
(* the word, so each comparison against DEBOUNCE_TIME and SLEEP_TIMEOUT    *)
(* has the outcome it has with 32 bits.  pendingRequests (int) stays far   *)
(* from its limits: the number of triggers is bounded by MaxPresses.       *)
(***************************************************************************)
ULongMod == 2^30
USub(a, b) == (a - b + ULongMod) % ULongMod

(***************************************************************************)
(* Strings: String::trim() removes leading and trailing whitespace         *)
(***************************************************************************)
IsSpace(c) == c \in {" ", "\n", "\t", "\r"}

RECURSIVE TrimLeft(_)
TrimLeft(s) ==
    IF s = <<>> THEN s
    ELSE IF IsSpace(Head(s)) THEN TrimLeft(Tail(s)) ELSE s

RECURSIVE TrimRight(_)
TrimRight(s) ==
    IF s = <<>> THEN s
    ELSE IF IsSpace(s[Len(s)]) THEN TrimRight(SubSeq(s, 1, Len(s) - 1)) ELSE s

Trim(s) == TrimRight(TrimLeft(s))

\* String::indexOf(ch, fromIndex): the index (from 0) of the first ch at or
\* after fromIndex, -1 when there is none
RECURSIVE IndexOf(_, _, _)
IndexOf(s, ch, from) ==
    IF from >= Len(s) THEN -1
    ELSE IF s[from + 1] = ch THEN from
    ELSE IndexOf(s, ch, from + 1)

\* String::substring(left, right): the characters left .. right - 1 (from 0)
Substring(s, left, right) ==
    LET lo == IF left > right THEN right ELSE left
        hi == IF left > right THEN left ELSE right
        end == IF hi > Len(s) THEN Len(s) ELSE hi
    IN  IF lo >= Len(s) THEN <<>> ELSE SubSeq(s, lo + 1, end)

UpperCase == <<"A", "B", "C", "D", "E", "F", "G", "H", "I", "J", "K", "L", "M",
               "N", "O", "P", "Q", "R", "S", "T", "U", "V", "W", "X", "Y", "Z">>
LowerCase == <<"a", "b", "c", "d", "e", "f", "g", "h", "i", "j", "k", "l", "m",
               "n", "o", "p", "q", "r", "s", "t", "u", "v", "w", "x", "y", "z">>
ToLower(c) ==
    IF \E i \in DOMAIN UpperCase : UpperCase[i] = c
    THEN LowerCase[CHOOSE i \in DOMAIN UpperCase : UpperCase[i] = c]
    ELSE c

\* String::equalsIgnoreCase
EqualsIgnoreCase(a, b) ==
    /\ Len(a) = Len(b)
    /\ \A i \in 1..Len(a) : ToLower(a[i]) = ToLower(b[i])

Empty == <<>>
Absent == <<"<absent>">>        \* a key the store does not hold / an argument not sent
GET == <<"G", "E", "T">>
POST == <<"P", "O", "S", "T">>
NoBody == <<"<no body>">>       \* a request sent without a body

Keys == {"ssid", "password", "webhook", "webhook_method", "webhook_headers",
         "webhook_payload"}

\* preferences.getString(key, default)
GetString(store, key, default) ==
    IF store[key] = Absent THEN default ELSE store[key]

\* The globals of lines 58-63 as initialised
DefaultConfig ==
    [ssid |-> Empty, password |-> Empty, webhookUrl |-> Empty,
     webhookMethod |-> GET, webhookHeaders |-> Empty, webhookPayload |-> Empty]

(***************************************************************************)
(* Inputs: what the store may hold at power-on                             *)
(***************************************************************************)
FreshPrefs == [k \in Keys |-> Absent]
HomePrefs ==
    [ssid |-> <<"H">>, password |-> <<"s">>, webhook |-> <<"u">>,
     webhook_method |-> <<"p", "o", "s", "t">>, webhook_headers |-> <<"K", ":", "v">>,
     webhook_payload |-> <<"b">>]
NoUrlPrefs == [HomePrefs EXCEPT !.webhook = Empty]
BlankSsidPrefs == [HomePrefs EXCEPT !.ssid = <<" ">>]
StoredPrefs == {FreshPrefs, HomePrefs, NoUrlPrefs, BlankSsidPrefs}

WakeCauses == {"ESP_SLEEP_WAKEUP_UNDEFINED", "ESP_SLEEP_WAKEUP_GPIO",
               "ESP_SLEEP_WAKEUP_TIMER", "ESP_SLEEP_WAKEUP_OTHER"}

(***************************************************************************)
(* Power-on: the RAM of a fresh power cycle (globals of lines 55-69); the  *)
(* store keeps its content.                                                *)
(***************************************************************************)
PowerOn(cause, store) ==
    /\ pc = "setup_begin"
    /\ now = BootDelay
    /\ ticks = 0
    /\ wakeup_reason = cause
    /\ buttonState = "none"
    /\ buttonAttached = FALSE
    /\ wakeSource = "unset"
    /\ prefs = store
    /\ cfg = DefaultConfig
    /\ configSaved = FALSE
    /\ pendingRequests = 0
    /\ requestInProgress = FALSE
    /\ lastButtonPressTime = 0
    /\ lastActivityTime = 0
    /\ wifiMode = "WIFI_MODE_NULL"
    /\ wifiStatus = "WL_IDLE_STATUS"
    /\ dnsStarted = FALSE
    /\ serverStarted = FALSE
    /\ fullAttempt = 0
    /\ attempts = 0
    /\ currentMode = "WIFI_MODE_NULL"
    /\ reg = 0
    /\ tIdle = 0
    /\ enqueued = 0
    /\ dispatched = 0
    /\ lastTriggerAt = -1
    /\ lastAcceptedAt = -1
    /\ httpResponseCode = -1
    /\ requests = <<>>
    /\ portalLog = <<>>
    /\ wakeCalls = 0

Init == \E cause \in WakeCauses, store \in StoredPrefs : PowerOn(cause, store)

(***************************************************************************)
(* Environment: the clock                                                  *)
(***************************************************************************)
Awake == pc \notin {"asleep", "restarting"}

Tick ==
    /\ Awake
    /\ ticks < MaxTicks
    /\ \E d \in Deltas : now' = now + d
    /\ ticks' = ticks + 1
    /\ UNCHANGED <<pc, setupLocals, hwVars, cfgVars, isrVars, requestInProgress,
                   netVars, wifiLocals, loopLocals, histVars>>

(***************************************************************************)
(* buttonISR (lines 197-212): runs to completion between two steps of the  *)
(* main thread, on a falling edge of BUTTON_PIN while attached.            *)
(***************************************************************************)
\* buttonISR that forgets to record the time of an accepted trigger
buttonISR_NoStamp ==
    /\ Awake
    /\ buttonAttached
    /\ enqueued < MaxPresses
    /\ lastTriggerAt' = now
    /\ IF USub(now, lastButtonPressTime) > DEBOUNCE_TIME
       THEN /\ pendingRequests' = pendingRequests + 1
            /\ lastActivityTime' = now
            /\ enqueued' = enqueued + 1
            /\ lastAcceptedAt' = now
            /\ UNCHANGED lastButtonPressTime
       ELSE UNCHANGED <<pendingRequests, lastButtonPressTime, lastActivityTime,
                        enqueued, lastAcceptedAt>>
    /\ UNCHANGED <<pc, now, ticks, setupLocals, hwVars, cfgVars, requestInProgress,
                   netVars, wifiLocals, loopLocals, dispatched, traceVars>>

\* buttonISR that accepts a trigger at exactly DEBOUNCE_TIME (>= for >)
buttonISR_AtWindow ==
    /\ Awake
    /\ buttonAttached
    /\ enqueued < MaxPresses
    /\ lastTriggerAt' = now
    /\ IF USub(now, lastButtonPressTime) >= DEBOUNCE_TIME
       THEN /\ pendingRequests' = pendingRequests + 1
            /\ lastButtonPressTime' = now
            /\ lastActivityTime' = now
            /\ enqueued' = enqueued + 1
            /\ lastAcceptedAt' = now
       ELSE UNCHANGED <<pendingRequests, lastButtonPressTime, lastActivityTime,
                        enqueued, lastAcceptedAt>>
    /\ UNCHANGED <<pc, now, ticks, setupLocals, hwVars, cfgVars, requestInProgress,
                   netVars, wifiLocals, loopLocals, dispatched, traceVars>>

buttonISR ==
    /\ Awake
    /\ buttonAttached
    /\ enqueued < MaxPresses
    /\ lastTriggerAt' = now
    /\ IF USub(now, lastButtonPressTime) > DEBOUNCE_TIME
       THEN /\ pendingRequests' = pendingRequests + 1
            /\ lastButtonPressTime' = now
            /\ lastActivityTime' = now
            /\ enqueued' = enqueued + 1
            /\ lastAcceptedAt' = now
       ELSE UNCHANGED <<pendingRequests, lastButtonPressTime, lastActivityTime,
                        enqueued, lastAcceptedAt>>
    /\ UNCHANGED <<pc, now, ticks, setupLocals, hwVars, cfgVars, requestInProgress,
                   netVars, wifiLocals, loopLocals, dispatched, traceVars>>

(***************************************************************************)
(* setup (lines 83-195)                                                    *)
(***************************************************************************)
\* SetupSeed that seeds on every wake from sleep, the timer's included
SetupSeed_AnyWake ==
    /\ pc = "setup_begin"
    /\ lastActivityTime' = now
    /\ IF wakeup_reason # "ESP_SLEEP_WAKEUP_UNDEFINED"
       THEN /\ pendingRequests' = pendingRequests + 1
            /\ enqueued' = enqueued + 1
       ELSE UNCHANGED <<pendingRequests, enqueued>>
    /\ pc' = "setup_attach"
    /\ UNCHANGED <<now, ticks, setupLocals, hwVars, cfgVars, lastButtonPressTime,
                   requestInProgress, netVars, wifiLocals, loopLocals,
                   dispatched, lastTriggerAt, lastAcceptedAt, traceVars>>

\* lines 84-119: activity time, wake cause, seed of pendingRequests
SetupSeed ==
    /\ pc = "setup_begin"
    /\ lastActivityTime' = now
    /\ IF wakeup_reason = "ESP_SLEEP_WAKEUP_GPIO"
       THEN /\ pendingRequests' = pendingRequests + 1
            /\ enqueued' = enqueued + 1
       ELSE UNCHANGED <<pendingRequests, enqueued>>
    /\ pc' = "setup_attach"
    /\ UNCHANGED <<now, ticks, setupLocals, hwVars, cfgVars, lastButtonPressTime,
                   requestInProgress, netVars, wifiLocals, loopLocals,
                   dispatched, lastTriggerAt, lastAcceptedAt, traceVars>>

\* lines 121-132: pinMode, attachInterrupt
SetupAttach ==
    /\ pc = "setup_attach"
    /\ buttonAttached' = TRUE
    /\ pc' = "setup_detach"
    /\ UNCHANGED <<now, ticks, setupLocals, wakeSource, cfgVars, isrVars,
                   requestInProgress, netVars, wifiLocals, loopLocals, histVars>>

\* lines 138-141: unless woken by the button, detach the handler
SetupDetach ==
    /\ pc = "setup_detach"
    /\ IF wakeup_reason # "ESP_SLEEP_WAKEUP_GPIO"
       THEN buttonAttached' = FALSE /\ pc' = "setup_reattach"
       ELSE buttonAttached' = buttonAttached /\ pc' = "setup_wakeup"
    /\ UNCHANGED <<now, ticks, setupLocals, wakeSource, cfgVars, isrVars,
                   requestInProgress, netVars, wifiLocals, loopLocals, histVars>>

\* lines 142-144: delay(100), attach it again
SetupReattach ==
    /\ pc = "setup_reattach"
    /\ buttonAttached' = TRUE
    /\ pc' = "setup_wakeup"
    /\ UNCHANGED <<now, ticks, setupLocals, wakeSource, cfgVars, isrVars,
                   requestInProgress, netVars, wifiLocals, loopLocals, histVars>>

\* lines 150-156: esp_deep_sleep_enable_gpio_wakeup, its result only logged
SetupWakeup ==
    /\ pc = "setup_wakeup"
    /\ \E result \in {"ESP_OK", "ESP_FAIL"} : wakeSource' = result
    /\ wakeCalls' = wakeCalls + 1
    /\ pc' = "setup_load"
    /\ UNCHANGED <<now, ticks, setupLocals, buttonAttached, cfgVars, isrVars,
                   requestInProgress, netVars, wifiLocals, loopLocals, runVars,
                   httpResponseCode, requests, portalLog>>

\* lines 159-172: load the configuration, trim ssid, password, webhookUrl
SetupLoad ==
    /\ pc = "setup_load"
    /\ cfg' = [ssid |-> Trim(GetString(prefs, "ssid", Empty)),
               password |-> Trim(GetString(prefs, "password", Empty)),
               webhookUrl |-> Trim(GetString(prefs, "webhook", Empty)),
               webhookMethod |-> GetString(prefs, "webhook_method", GET),
               webhookHeaders |-> GetString(prefs, "webhook_headers", Empty),
               webhookPayload |-> GetString(prefs, "webhook_payload", Empty)]
    /\ pc' = "setup_mode"
    /\ UNCHANGED <<now, ticks, setupLocals, hwVars, prefs, configSaved, isrVars,
                   requestInProgress, netVars, wifiLocals, loopLocals, histVars>>

\* StartupMode that looks at the credentials before the button
StartupMode_CredentialsFirst(level, c) ==
    IF Len(c.ssid) > 0 /\ Len(c.password) > 0 THEN "wifi_begin"
    ELSE "ap_setup"

\* lines 181-194: the startup mode; buttonState is digitalRead(BUTTON_PIN)
StartupMode(level, c) ==
    IF level = "LOW" THEN "ap_setup"
    ELSE IF Len(c.ssid) > 0 /\ Len(c.password) > 0 THEN "wifi_begin"
    ELSE "ap_setup"

SetupMode ==
    /\ pc = "setup_mode"
    /\ \E level \in {"HIGH", "LOW"} :
          /\ buttonState' = level
          /\ pc' = StartupMode(level, cfg)
    /\ UNCHANGED <<now, ticks, wakeup_reason, hwVars, cfgVars, isrVars,
                   requestInProgress, netVars, wifiLocals, loopLocals, histVars>>

(***************************************************************************)
(* Environment: the link.  Once WiFi.begin was called in station mode the  *)
(* status changes on its own (joined, lost).                               *)
(***************************************************************************)
WifiEvent ==
    /\ Awake
    /\ wifiMode = "WIFI_MODE_STA"
    /\ wifiStatus # "WL_IDLE_STATUS"
    /\ wifiStatus' = IF wifiStatus = "WL_CONNECTED" THEN "WL_DISCONNECTED"
                     ELSE "WL_CONNECTED"
    /\ UNCHANGED <<pc, now, ticks, setupLocals, hwVars, cfgVars, isrVars,
                   requestInProgress, wifiMode, dnsStarted, serverStarted,
                   wifiLocals, loopLocals, histVars>>

(***************************************************************************)
(* setupWiFi (lines 259-326)                                               *)
(***************************************************************************)
\* lines 260-266: station mode, fullAttempt = 0
WifiBegin ==
    /\ pc = "wifi_begin"
    /\ wifiMode' = "WIFI_MODE_STA"
    /\ fullAttempt' = 0
    /\ pc' = "wifi_cycle"
    /\ UNCHANGED <<now, ticks, setupLocals, hwVars, cfgVars, isrVars,
                   requestInProgress, wifiStatus, dnsStarted, serverStarted,
                   attempts, loopLocals, histVars>>

\* WifiCycle that restarts the device when the cycles are used up
WifiCycle_Restart ==
    /\ pc = "wifi_cycle"
    /\ IF fullAttempt < MAX_FULL_CONNECTION_ATTEMPTS
       THEN /\ wifiStatus' = "WL_DISCONNECTED"
            /\ attempts' = 0
            /\ pc' = "wifi_poll"
       ELSE /\ pc' = "restarting"
            /\ UNCHANGED <<wifiStatus, attempts>>
    /\ UNCHANGED <<now, ticks, setupLocals, hwVars, cfgVars, isrVars,
                   requestInProgress, wifiMode, dnsStarted, serverStarted,
                   fullAttempt, loopLocals, histVars>>

\* lines 266-287: the outer loop's test; disconnect, begin, attempts = 0;
\* lines 322-325 when the cycles are used up
WifiCycle ==
    /\ pc = "wifi_cycle"
    /\ IF fullAttempt < MAX_FULL_CONNECTION_ATTEMPTS
       THEN /\ wifiStatus' = "WL_DISCONNECTED"
            /\ attempts' = 0
            /\ pc' = "wifi_poll"
       ELSE /\ pc' = "ap_setup"
            /\ UNCHANGED <<wifiStatus, attempts>>
    /\ UNCHANGED <<now, ticks, setupLocals, hwVars, cfgVars, isrVars,
                   requestInProgress, wifiMode, dnsStarted, serverStarted,
                   fullAttempt, loopLocals, histVars>>

\* WifiPoll that polls once more than MAX_CONNECTION_ATTEMPTS (<= for <)
WifiPoll_OneTooMany ==
    /\ pc = "wifi_poll"
    /\ IF wifiStatus # "WL_CONNECTED" /\ attempts <= MAX_CONNECTION_ATTEMPTS
       THEN attempts' = attempts + 1 /\ pc' = "wifi_poll"
       ELSE attempts' = attempts /\ pc' = "wifi_check"
    /\ UNCHANGED <<now, ticks, setupLocals, hwVars, cfgVars, isrVars,
                   requestInProgress, netVars, fullAttempt, loopLocals, histVars>>

\* lines 289-302: one test of the while loop and, when it holds, one poll
WifiPoll ==
    /\ pc = "wifi_poll"
    /\ IF wifiStatus # "WL_CONNECTED" /\ attempts < MAX_CONNECTION_ATTEMPTS
       THEN attempts' = attempts + 1 /\ pc' = "wifi_poll"
       ELSE attempts' = attempts /\ pc' = "wifi_check"
    /\ UNCHANGED <<now, ticks, setupLocals, hwVars, cfgVars, isrVars,
                   requestInProgress, netVars, fullAttempt, loopLocals, histVars>>

\* lines 304-320: return when connected, else the next cycle (attempts, a
\* local of the loop body, ends with the cycle)
WifiCheck ==
    /\ pc = "wifi_check"
    /\ IF wifiStatus = "WL_CONNECTED"
       THEN /\ pc' = "loop_top"
            /\ fullAttempt' = 0
            /\ attempts' = 0
            /\ wakeup_reason' = "none"
            /\ buttonState' = "none"
       ELSE /\ pc' = "wifi_cycle"
            /\ fullAttempt' = fullAttempt + 1
            /\ attempts' = 0
            /\ UNCHANGED setupLocals
    /\ UNCHANGED <<now, ticks, hwVars, cfgVars, isrVars, requestInProgress,
                   netVars, loopLocals, histVars>>

(***************************************************************************)
(* setupAP (lines 330-378) and setupWebServer (lines 380-401)              *)
(***************************************************************************)
SetupAP ==
    /\ pc = "ap_setup"
    /\ wifiMode' = "WIFI_MODE_AP"
    /\ wifiStatus' = "WL_DISCONNECTED"
    /\ dnsStarted' = TRUE
    /\ serverStarted' = TRUE
    /\ fullAttempt' = 0
    /\ attempts' = 0
    /\ wakeup_reason' = "none"
    /\ buttonState' = "none"
    /\ pc' = "loop_top"
    /\ UNCHANGED <<now, ticks, hwVars, cfgVars, isrVars, requestInProgress,
                   loopLocals, histVars>>

(***************************************************************************)
(* handleSave (lines 465-524)                                              *)
(***************************************************************************)
\* server.hasArg / server.arg
HasArg(form, k) == form[k] # Absent
Arg(form, k) == IF form[k] = Absent THEN Empty ELSE form[k]

FullForm ==
    [ssid |-> <<" ", "H">>, password |-> <<"s", " ">>, webhook |-> <<"u">>,
     webhook_method |-> <<"p", "o", "s", "t", " ">>,
     webhook_headers |-> <<"K", ":", "v", "\n">>, webhook_payload |-> <<"b">>]
Forms == {FullForm, [FullForm EXCEPT !.ssid = Absent],
          [FullForm EXCEPT !.password = Absent],
          [FullForm EXCEPT !.webhook = Absent]}

\* lines 466-520 / 521-523: the status of the response
SaveStatus(form) ==
    IF HasArg(form, "ssid") /\ HasArg(form, "password") /\ HasArg(form, "webhook")
    THEN 200 ELSE 400

\* handleSave that asks for the network name only
handleSave_SsidOnly(form) ==
    /\ lastActivityTime' = now
    /\ portalLog' = <<[request |-> form, status |-> SaveStatus(form)]>>
    /\ IF HasArg(form, "ssid")
       THEN /\ cfg' = [ssid |-> Trim(Arg(form, "ssid")),
                       password |-> Trim(Arg(form, "password")),
                       webhookUrl |-> Trim(Arg(form, "webhook")),
                       webhookMethod |-> Trim(Arg(form, "webhook_method")),
                       webhookHeaders |-> Trim(Arg(form, "webhook_headers")),
                       webhookPayload |-> Trim(Arg(form, "webhook_payload"))]
            /\ prefs' = [ssid |-> cfg'.ssid, password |-> cfg'.password,
                         webhook |-> cfg'.webhookUrl,
                         webhook_method |-> cfg'.webhookMethod,
                         webhook_headers |-> cfg'.webhookHeaders,
                         webhook_payload |-> cfg'.webhookPayload]
            /\ configSaved' = TRUE
       ELSE UNCHANGED <<cfg, prefs, configSaved>>

handleSave(form) ==
    /\ lastActivityTime' = now
    /\ portalLog' = <<[request |-> form, status |-> SaveStatus(form)]>>
    /\ IF HasArg(form, "ssid") /\ HasArg(form, "password") /\ HasArg(form, "webhook")
       THEN /\ cfg' = [ssid |-> Trim(Arg(form, "ssid")),
                       password |-> Trim(Arg(form, "password")),
                       webhookUrl |-> Trim(Arg(form, "webhook")),
                       webhookMethod |-> Trim(Arg(form, "webhook_method")),
                       webhookHeaders |-> Trim(Arg(form, "webhook_headers")),
                       webhookPayload |-> Trim(Arg(form, "webhook_payload"))]
            /\ prefs' = [ssid |-> cfg'.ssid, password |-> cfg'.password,
                         webhook |-> cfg'.webhookUrl,
                         webhook_method |-> cfg'.webhookMethod,
                         webhook_headers |-> cfg'.webhookHeaders,
                         webhook_payload |-> cfg'.webhookPayload]
            /\ configSaved' = TRUE
       ELSE UNCHANGED <<cfg, prefs, configSaved>>

(***************************************************************************)
(* loop (lines 214-257)                                                    *)
(***************************************************************************)
\* LoopTop with a plain else for the else-if of line 230
LoopTop_PlainElse ==
    /\ pc = "loop_top"
    /\ currentMode' = wifiMode
    /\ IF wifiMode = "WIFI_MODE_STA" /\ wifiStatus # "WL_CONNECTED"
       THEN pc' = "loop_portal"
       ELSE pc' = "disp_guard"
    /\ UNCHANGED <<now, ticks, setupLocals, hwVars, cfgVars, isrVars,
                   requestInProgress, netVars, wifiLocals, reg, tIdle, histVars>>

\* lines 215-217: the mode, and the first test of the status
LoopTop ==
    /\ pc = "loop_top"
    /\ currentMode' = wifiMode
    /\ IF wifiMode = "WIFI_MODE_AP"
          \/ (wifiMode = "WIFI_MODE_STA" /\ wifiStatus # "WL_CONNECTED")
       THEN pc' = "loop_portal"
       ELSE pc' = "loop_elif"
    /\ UNCHANGED <<now, ticks, setupLocals, hwVars, cfgVars, isrVars,
                   requestInProgress, netVars, wifiLocals, reg, tIdle, histVars>>

\* LoopPortal that keeps serving after a save
LoopPortal_KeepsServing ==
    /\ pc = "loop_portal"
    /\ \/ /\ portalLog' = <<>>
          /\ UNCHANGED <<cfg, prefs, configSaved, lastActivityTime>>
       \/ /\ serverStarted
          /\ \E form \in Forms : handleSave(form)
    /\ pc' = "loop_top"
    /\ UNCHANGED <<now, ticks, setupLocals, hwVars, pendingRequests,
                   lastButtonPressTime, requestInProgress, netVars, wifiLocals,
                   loopLocals, runVars, httpResponseCode, requests, wakeCalls>>

\* lines 218-226: one request of the portal at most, restart after a save
LoopPortal ==
    /\ pc = "loop_portal"
    /\ \/ /\ portalLog' = <<>>
          /\ UNCHANGED <<cfg, prefs, configSaved, lastActivityTime>>
       \/ /\ serverStarted
          /\ \E form \in Forms : handleSave(form)
    /\ pc' = IF configSaved' THEN "restarting" ELSE "loop_top"
    /\ UNCHANGED <<now, ticks, setupLocals, hwVars, pendingRequests,
                   lastButtonPressTime, requestInProgress, netVars, wifiLocals,
                   loopLocals, runVars, httpResponseCode, requests, wakeCalls>>

\* LoopElif that does not look at the link
LoopElif_AnyStatus ==
    /\ pc = "loop_elif"
    /\ IF currentMode = "WIFI_MODE_STA"
       THEN pc' = "disp_guard"
       ELSE pc' = "loop_top"
    /\ UNCHANGED <<now, ticks, setupLocals, hwVars, cfgVars, isrVars,
                   requestInProgress, netVars, wifiLocals, loopLocals, histVars>>

\* line 230: the second test of the status; line 256 when neither branch is taken
LoopElif ==
    /\ pc = "loop_elif"
    /\ IF currentMode = "WIFI_MODE_STA" /\ wifiStatus = "WL_CONNECTED"
       THEN pc' = "disp_guard"
       ELSE pc' = "loop_top"
    /\ UNCHANGED <<now, ticks, setupLocals, hwVars, cfgVars, isrVars,
                   requestInProgress, netVars, wifiLocals, loopLocals, histVars>>

\* DispatchGuard that does not test the counter against zero
DispatchGuard_NoPositiveTest ==
    /\ pc = "disp_guard"
    /\ IF ~requestInProgress
       THEN pc' = "disp_load"
       ELSE pc' = "idle_guard"
    /\ UNCHANGED <<now, ticks, setupLocals, hwVars, cfgVars, isrVars,
                   requestInProgress, netVars, wifiLocals, loopLocals, histVars>>

\* line 234
DispatchGuard ==
    /\ pc = "disp_guard"
    /\ IF pendingRequests > 0 /\ ~requestInProgress
       THEN pc' = "disp_load"
       ELSE pc' = "idle_guard"
    /\ UNCHANGED <<now, ticks, setupLocals, hwVars, cfgVars, isrVars,
                   requestInProgress, netVars, wifiLocals, loopLocals, histVars>>

\* line 235, pendingRequests--: the load
DecrementLoad ==
    /\ pc = "disp_load"
    /\ reg' = pendingRequests
    /\ pc' = "disp_store"
    /\ UNCHANGED <<now, ticks, setupLocals, hwVars, cfgVars, isrVars,
                   requestInProgress, netVars, wifiLocals, currentMode, tIdle,
                   histVars>>

\* line 235, pendingRequests--: the store; lines 236-238 call sendWebhookRequest
DecrementStore ==
    /\ pc = "disp_store"
    /\ pendingRequests' = reg - 1
    /\ reg' = 0
    /\ dispatched' = dispatched + 1
    /\ pc' = "send_enter"
    /\ UNCHANGED <<now, ticks, setupLocals, hwVars, cfgVars, lastButtonPressTime,
                   lastActivityTime, requestInProgress, netVars, wifiLocals,
                   currentMode, tIdle, enqueued, lastTriggerAt, lastAcceptedAt,
                   traceVars>>

\* line 241
DispatchAfter ==
    /\ pc = "disp_after"
    /\ lastActivityTime' = now
    /\ pc' = "idle_guard"
    /\ UNCHANGED <<now, ticks, setupLocals, hwVars, cfgVars, pendingRequests,
                   lastButtonPressTime, requestInProgress, netVars, wifiLocals,
                   loopLocals, histVars>>

\* line 246
IdleGuard ==
    /\ pc = "idle_guard"
    /\ IF ~requestInProgress /\ pendingRequests = 0
       THEN pc' = "idle_read"
       ELSE pc' = "loop_top"
    /\ UNCHANGED <<now, ticks, setupLocals, hwVars, cfgVars, isrVars,
                   requestInProgress, netVars, wifiLocals, loopLocals, histVars>>

\* line 247: the operand evaluated first, millis() or lastActivityTime (the
\* order of the two is the compiler's choice)
IdleRead ==
    /\ pc = "idle_read"
    /\ \/ tIdle' = now /\ pc' = "idle_cmp_millis_first"
       \/ tIdle' = lastActivityTime /\ pc' = "idle_cmp_load_first"
    /\ UNCHANGED <<now, ticks, setupLocals, hwVars, cfgVars, isrVars,
                   requestInProgress, netVars, wifiLocals, currentMode, reg,
                   histVars>>

\* IdleCompare that asks for more than SLEEP_TIMEOUT (> for >=)
IdleCompare_Strict ==
    /\ pc \in {"idle_cmp_millis_first", "idle_cmp_load_first"}
    /\ LET elapsed == IF pc = "idle_cmp_millis_first"
                      THEN USub(tIdle, lastActivityTime)
                      ELSE USub(now, tIdle)
       IN  IF elapsed > SLEEP_TIMEOUT
           THEN pc' = "sleep_detach"
           ELSE pc' = "loop_top"
    /\ tIdle' = 0
    /\ UNCHANGED <<now, ticks, setupLocals, hwVars, cfgVars, isrVars,
                   requestInProgress, netVars, wifiLocals, currentMode, reg,
                   histVars>>

\* line 247: the other operand and the comparison; line 250 calls goToSleep
IdleCompare ==
    /\ pc \in {"idle_cmp_millis_first", "idle_cmp_load_first"}
    /\ LET elapsed == IF pc = "idle_cmp_millis_first"
                      THEN USub(tIdle, lastActivityTime)
                      ELSE USub(now, tIdle)
       IN  IF elapsed >= SLEEP_TIMEOUT
           THEN pc' = "sleep_detach"
           ELSE pc' = "loop_top"
    /\ tIdle' = 0
    /\ UNCHANGED <<now, ticks, setupLocals, hwVars, cfgVars, isrVars,
                   requestInProgress, netVars, wifiLocals, currentMode, reg,
                   histVars>>

(***************************************************************************)
(* sendWebhookRequest (lines 556-617)                                      *)
(***************************************************************************)
\* lines 557-558
SendEnter ==
    /\ pc = "send_enter"
    /\ requestInProgress' = TRUE
    /\ lastActivityTime' = now
    /\ pc' = "send_url"
    /\ UNCHANGED <<now, ticks, setupLocals, hwVars, cfgVars, pendingRequests,
                   lastButtonPressTime, netVars, wifiLocals, loopLocals, histVars>>

\* SendUrl whose early return leaves requestInProgress set
SendUrl_KeepsFlag ==
    /\ pc = "send_url"
    /\ IF Len(cfg.webhookUrl) = 0
       THEN requestInProgress' = requestInProgress /\ pc' = "disp_after"
       ELSE requestInProgress' = requestInProgress /\ pc' = "send_http"
    /\ UNCHANGED <<now, ticks, setupLocals, hwVars, cfgVars, isrVars, netVars,
                   wifiLocals, loopLocals, histVars>>

\* lines 560-564
SendUrl ==
    /\ pc = "send_url"
    /\ IF Len(cfg.webhookUrl) = 0
       THEN requestInProgress' = FALSE /\ pc' = "disp_after"
       ELSE requestInProgress' = requestInProgress /\ pc' = "send_http"
    /\ UNCHANGED <<now, ticks, setupLocals, hwVars, cfgVars, isrVars, netVars,
                   wifiLocals, loopLocals, histVars>>

\* HeaderOf that passes the value on as written, without trim()
HeaderOf_RawValue(line) ==
    LET colon == IndexOf(line, ":", 0)
    IN  IF Len(line) > 0 /\ colon > 0
        THEN <<[key |-> Trim(Substring(line, 0, colon)),
                value |-> Substring(line, colon + 1, Len(line))]>>
        ELSE <<>>

\* lines 581-590: the http.addHeader call made for one trimmed line, if any
HeaderOf(line) ==
    LET colon == IndexOf(line, ":", 0)
    IN  IF Len(line) > 0 /\ colon > 0
        THEN <<[key |-> Trim(Substring(line, 0, colon)),
                value |-> Trim(Substring(line, colon + 1, Len(line)))]>>
        ELSE <<>>

\* lines 574-592: the while loop over webhookHeaders, from lineStart on;
\* added is the sequence of http.addHeader calls made so far
RECURSIVE AddHeaders(_, _, _)
AddHeaders(text, lineStart, added) ==
    IF lineStart < Len(text)
    THEN LET found == IndexOf(text, "\n", lineStart)
             lineEnd == IF found = -1 THEN Len(text) ELSE found
             line == Trim(Substring(text, lineStart, lineEnd))
         IN  AddHeaders(text, lineEnd + 1, added \o HeaderOf(line))
    ELSE added

\* BuildRequest that compares the method with "POST" letter for letter
BuildRequest_ExactCase(c) ==
    [url |-> c.webhookUrl,
     headers |-> AddHeaders(c.webhookHeaders, 0, <<>>),
     method |-> IF c.webhookMethod = POST THEN "POST" ELSE "GET",
     body |-> IF c.webhookMethod = POST THEN c.webhookPayload ELSE NoBody]

\* lines 571-604: the request handed to HTTPClient
BuildRequest(c) ==
    [url |-> c.webhookUrl,
     headers |-> AddHeaders(c.webhookHeaders, 0, <<>>),
     method |-> IF EqualsIgnoreCase(c.webhookMethod, POST) THEN "POST" ELSE "GET",
     body |-> IF EqualsIgnoreCase(c.webhookMethod, POST) THEN c.webhookPayload
              ELSE NoBody]

\* http.POST / http.GET: a negative error, or the status of the response
ResponseCodes == {-1, 200, 500}

\* lines 566-604: the blocking HTTP call
SendHttp ==
    /\ pc = "send_http"
    /\ requests' = Append(requests, BuildRequest(cfg))
    /\ \E code \in ResponseCodes : httpResponseCode' = code
    /\ pc' = "send_done"
    /\ UNCHANGED <<now, ticks, setupLocals, hwVars, cfgVars, isrVars,
                   requestInProgress, netVars, wifiLocals, loopLocals, runVars,
                   portalLog, wakeCalls>>

\* SendDone that puts the event back when the request failed
SendDone_Requeue ==
    /\ pc = "send_done"
    /\ lastActivityTime' = now
    /\ requestInProgress' = FALSE
    /\ pendingRequests' = IF httpResponseCode > 0 THEN pendingRequests
                          ELSE pendingRequests + 1
    /\ httpResponseCode' = -1
    /\ pc' = "disp_after"
    /\ UNCHANGED <<now, ticks, setupLocals, hwVars, cfgVars,
                   lastButtonPressTime, netVars, wifiLocals, loopLocals, runVars,
                   requests, portalLog, wakeCalls>>

\* lines 605-616: the outcome is logged only; the local ends with the call
SendDone ==
    /\ pc = "send_done"
    /\ lastActivityTime' = now
    /\ requestInProgress' = FALSE
    /\ httpResponseCode' = -1
    /\ pc' = "disp_after"
    /\ UNCHANGED <<now, ticks, setupLocals, hwVars, cfgVars, pendingRequests,
                   lastButtonPressTime, netVars, wifiLocals, loopLocals, runVars,
                   requests, portalLog, wakeCalls>>

(***************************************************************************)
(* goToSleep (lines 620-641)                                               *)
(***************************************************************************)
\* SleepDetach that leaves the handler attached
SleepDetach_KeepsHandler ==
    /\ pc = "sleep_detach"
    /\ buttonAttached' = buttonAttached
    /\ pc' = "sleep_wakeup"
    /\ UNCHANGED <<now, ticks, setupLocals, wakeSource, cfgVars, isrVars,
                   requestInProgress, netVars, wifiLocals, loopLocals, histVars>>

\* lines 621-626
SleepDetach ==
    /\ pc = "sleep_detach"
    /\ buttonAttached' = FALSE
    /\ pc' = "sleep_wakeup"
    /\ UNCHANGED <<now, ticks, setupLocals, wakeSource, cfgVars, isrVars,
                   requestInProgress, netVars, wifiLocals, loopLocals, histVars>>

\* SleepWakeup that gives up the sleep when the call fails
SleepWakeup_GivesUp ==
    /\ pc = "sleep_wakeup"
    /\ \E result \in {"ESP_OK", "ESP_FAIL"} :
          /\ wakeSource' = result
          /\ pc' = IF result = "ESP_OK" THEN "sleep_start" ELSE "loop_top"
    /\ wakeCalls' = wakeCalls + 1
    /\ UNCHANGED <<now, ticks, setupLocals, buttonAttached, cfgVars, isrVars,
                   requestInProgress, netVars, wifiLocals, loopLocals, runVars,
                   httpResponseCode, requests, portalLog>>

\* lines 629-635
SleepWakeup ==
    /\ pc = "sleep_wakeup"
    /\ \E result \in {"ESP_OK", "ESP_FAIL"} : wakeSource' = result
    /\ wakeCalls' = wakeCalls + 1
    /\ pc' = "sleep_start"
    /\ UNCHANGED <<now, ticks, setupLocals, buttonAttached, cfgVars, isrVars,
                   requestInProgress, netVars, wifiLocals, loopLocals, runVars,
                   httpResponseCode, requests, portalLog>>

\* lines 637-640: esp_deep_sleep_start
SleepStart ==
    /\ pc = "sleep_start"
    /\ pc' = "asleep"
    /\ UNCHANGED <<now, ticks, setupLocals, hwVars, cfgVars, isrVars,
                   requestInProgress, netVars, wifiLocals, loopLocals, histVars>>

(***************************************************************************)
(* The next power cycle: the button wakes the sleeping device, or          *)
(* ESP.restart (line 225) reboots it.  RAM starts afresh, the store stays. *)
(***************************************************************************)
Boot(cause) ==
    /\ pc' = "setup_begin"
    /\ now' = BootDelay
    /\ ticks' = 0
    /\ wakeup_reason' = cause
    /\ buttonState' = "none"
    /\ buttonAttached' = FALSE
    /\ wakeSource' = "unset"
    /\ prefs' = prefs
    /\ cfg' = DefaultConfig
    /\ configSaved' = FALSE
    /\ pendingRequests' = 0
    /\ requestInProgress' = FALSE
    /\ lastButtonPressTime' = 0
    /\ lastActivityTime' = 0
    /\ wifiMode' = "WIFI_MODE_NULL"
    /\ wifiStatus' = "WL_IDLE_STATUS"
    /\ dnsStarted' = FALSE
    /\ serverStarted' = FALSE
    /\ fullAttempt' = 0
    /\ attempts' = 0
    /\ currentMode' = "WIFI_MODE_NULL"
    /\ reg' = 0
    /\ tIdle' = 0
    /\ enqueued' = 0
    /\ dispatched' = 0
    /\ lastTriggerAt' = -1
    /\ lastAcceptedAt' = -1
    /\ httpResponseCode' = -1
    /\ requests' = <<>>
    /\ portalLog' = <<>>
    /\ wakeCalls' = 0

WakeUp ==
    /\ pc = "asleep"
    /\ wakeSource = "ESP_OK"
    /\ Boot("ESP_SLEEP_WAKEUP_GPIO")

Restart ==
    /\ pc = "restarting"
    /\ Boot("ESP_SLEEP_WAKEUP_UNDEFINED")

MainStep ==
    \/ SetupSeed \/ SetupAttach \/ SetupDetach \/ SetupReattach \/ SetupWakeup
    \/ SetupLoad \/ SetupMode
    \/ WifiBegin \/ WifiCycle \/ WifiPoll \/ WifiCheck \/ SetupAP
    \/ LoopTop \/ LoopPortal \/ LoopElif
    \/ DispatchGuard \/ DecrementLoad \/ DecrementStore \/ DispatchAfter
    \/ IdleGuard \/ IdleRead \/ IdleCompare
    \/ SendEnter \/ SendUrl \/ SendHttp \/ SendDone
    \/ SleepDetach \/ SleepWakeup \/ SleepStart

Next == MainStep \/ buttonISR \/ Tick \/ WifiEvent \/ WakeUp \/ Restart

Spec == Init /\ [][Next]_vars

(***************************************************************************)
(* Properties                                                              *)
(***************************************************************************)
\* a run of buttonISR (a run at the time of the run before it changes nothing)
TriggerStep == lastTriggerAt' = now /\ lastTriggerAt # now /\ pc' = pc

\* inside goToSleep, or asleep
Sleeping == pc \in {"sleep_detach", "sleep_wakeup", "sleep_start", "asleep"}

\* inside sendWebhookRequest after line 557
InDispatch == pc \in {"send_url", "send_http", "send_done"}

InSetupWiFi == pc \in {"wifi_begin", "wifi_cycle", "wifi_poll", "wifi_check"}

\* C1: the device is never in deep sleep with pendingRequests > 0 or
\* requestInProgress set, whatever the interleaving of buttonISR with loop().
C1_NoSleepWithWork ==
    pc = "asleep" => (pendingRequests = 0 /\ ~requestInProgress)

\* C2: events are counted, never lost or duplicated: the dispatches made plus
\* pendingRequests equal the accepted triggers plus the wake seed.
C2_EventsConserved ==
    dispatched + pendingRequests = enqueued

\* C3: the device never enters goToSleep or deep sleep while the radio is in
\* access-point mode; sleep entry is reached only from the branch of loop()
\* that saw station mode.
C3_NoSleepInAccessPoint ==
    Sleeping => (wifiMode = "WIFI_MODE_STA" /\ currentMode = "WIFI_MODE_STA")

\* C3 witness: the access point has been idle for the whole sleep timeout and
\* loop() is serving the portal.
C3_Witness ==
    /\ pc = "loop_portal"
    /\ wifiMode = "WIFI_MODE_AP"
    /\ pendingRequests > 0
    /\ USub(now, lastActivityTime) >= SLEEP_TIMEOUT

\* C4: at most one dispatch is in flight: sendWebhookRequest is entered only
\* with requestInProgress false, and requestInProgress is true exactly while
\* one call of sendWebhookRequest is running.
C4_SingleFlight ==
    /\ pc = "send_enter" => ~requestInProgress
    /\ requestInProgress <=> InDispatch

\* C4 witness: a webhook call is running while further events are pending.
C4_Witness ==
    /\ pc = "send_http"
    /\ requestInProgress
    /\ pendingRequests >= 2

\* C5: pendingRequests is never negative, and the decrement of line 235 writes
\* back a value that was read as positive.
C5_NeverNegative ==
    /\ pendingRequests >= 0
    /\ pc = "disp_store" => reg > 0

\* C5 witness: the handler incremented the counter between the load and the
\* store of the decrement.
C5_Witness ==
    /\ pc = "disp_store"
    /\ pendingRequests > reg

\* C6 as stated: a trigger less than DEBOUNCE_TIME after the trigger before it
\* never increments pendingRequests.
C6_CloseToPreviousIgnored ==
    [][(TriggerStep /\ lastTriggerAt >= 0 /\ now - lastTriggerAt < DEBOUNCE_TIME)
         => pendingRequests' = pendingRequests]_vars

\* C6 amended: a trigger no more than DEBOUNCE_TIME after the latest accepted
\* trigger never increments pendingRequests, so of a sequence of triggers that
\* all fall within the window after its first, accepted, trigger only the first
\* increments it.
C6_WithinWindowOfAcceptedIgnored ==
    [][(TriggerStep /\ lastAcceptedAt >= 0 /\ now - lastAcceptedAt <= DEBOUNCE_TIME)
         => pendingRequests' = pendingRequests]_vars

\* C6 witness: a trigger 200 ms after the accepted one was ignored.
C6_Witness ==
    /\ lastAcceptedAt >= 0
    /\ lastTriggerAt = lastAcceptedAt + 200
    /\ lastButtonPressTime = lastAcceptedAt
    /\ pendingRequests + dispatched = 1

\* how long ago the previous accepted trigger was (boot, when there was none)
SinceAccepted == now - (IF lastAcceptedAt < 0 THEN 0 ELSE lastAcceptedAt)

TriggerAccepted ==
    /\ pendingRequests' = pendingRequests + 1
    /\ lastButtonPressTime' = now
    /\ lastActivityTime' = now

TriggerIgnored ==
    UNCHANGED <<pendingRequests, lastButtonPressTime, lastActivityTime>>

\* C7 as stated: a trigger is ignored exactly when less than DEBOUNCE_TIME has
\* passed since the previous accepted trigger, and accepted otherwise.
C7_IgnoredBelowWindow ==
    [][TriggerStep => IF SinceAccepted < DEBOUNCE_TIME THEN TriggerIgnored
                      ELSE TriggerAccepted]_vars

\* C7 amended: a trigger is ignored, with no state change, exactly when no more
\* than DEBOUNCE_TIME has passed since the previous accepted trigger (exactly
\* 300 ms included); otherwise it increments pendingRequests by one and sets
\* lastButtonPressTime and lastActivityTime to the trigger time.
C7_IgnoredUpToWindow ==
    [][TriggerStep => IF SinceAccepted <= DEBOUNCE_TIME THEN TriggerIgnored
                      ELSE TriggerAccepted]_vars

\* C7 witness: a trigger exactly DEBOUNCE_TIME after the accepted one was ignored.
C7_Witness ==
    /\ lastAcceptedAt >= 0
    /\ lastTriggerAt = lastAcceptedAt + DEBOUNCE_TIME
    /\ lastButtonPressTime = lastAcceptedAt

\* C8: before the handler is attached no interrupt has run, and at the moment
\* of attaching pendingRequests is 1 after a wake by the button and 0 after any
\* other wake cause.
C8_SeedBeforeAttach ==
    /\ pc \in {"setup_begin", "setup_attach"} =>
          (~buttonAttached /\ lastTriggerAt = -1)
    /\ pc = "setup_attach" =>
          pendingRequests = (IF wakeup_reason = "ESP_SLEEP_WAKEUP_GPIO" THEN 1 ELSE 0)

\* C8 witness: woken by the button, seeded, handler not yet attached.
C8_Witness ==
    /\ pc = "setup_attach"
    /\ wakeup_reason = "ESP_SLEEP_WAKEUP_GPIO"
    /\ pendingRequests = 1
    /\ ~buttonAttached

\* the startup mode the claim prescribes, from the button level and the store
ExpectedMode(level, store) ==
    IF level = "LOW" THEN "ap_setup"
    ELSE IF /\ Trim(GetString(store, "ssid", Empty)) # Empty
            /\ Trim(GetString(store, "password", Empty)) # Empty
         THEN "wifi_begin"
         ELSE "ap_setup"

\* C9: the startup mode is decided once per boot, from the button level and
\* the stored credentials alone: access point when the button reads LOW, else
\* station mode when ssid and password are both non-empty after trimming,
\* else access point.
C9_StartupMode ==
    [][/\ (pc = "setup_mode" /\ pc' # pc) => pc' = ExpectedMode(buttonState', prefs)
       /\ (pc' = "setup_mode" /\ pc # pc') => pc = "setup_load"]_vars

\* C9 witness: credentials are stored, the button is held, the access point
\* is being set up.
C9_Witness ==
    /\ pc = "ap_setup"
    /\ buttonState = "LOW"
    /\ Len(cfg.ssid) > 0
    /\ Len(cfg.password) > 0

\* every step of setupWiFi lowers this, which is never negative inside it
WifiRank ==
    (MAX_FULL_CONNECTION_ATTEMPTS - fullAttempt) * (MAX_CONNECTION_ATTEMPTS + 4)
    + (CASE pc = "wifi_begin" -> MAX_CONNECTION_ATTEMPTS + 4
         [] pc = "wifi_cycle" -> MAX_CONNECTION_ATTEMPTS + 3
         [] pc = "wifi_poll" -> MAX_CONNECTION_ATTEMPTS + 2 - attempts
         [] pc = "wifi_check" -> 1
         [] OTHER -> 0)

WifiStep == InSetupWiFi /\ (pc' # pc \/ attempts' # attempts)

\* C10: setupWiFi terminates (each of its steps lowers WifiRank, which stays
\* non-negative), runs at most MAX_FULL_CONNECTION_ATTEMPTS cycles of at most
\* MAX_CONNECTION_ATTEMPTS polls each, and a step it takes while the status is
\* connected neither polls nor starts a cycle: the check of line 304 returns.
C10_BoundedConnect ==
    /\ [](InSetupWiFi =>
            /\ fullAttempt <= MAX_FULL_CONNECTION_ATTEMPTS
            /\ attempts <= MAX_CONNECTION_ATTEMPTS
            /\ (pc \in {"wifi_poll", "wifi_check"} =>
                    fullAttempt < MAX_FULL_CONNECTION_ATTEMPTS)
            /\ fullAttempt * MAX_CONNECTION_ATTEMPTS + attempts
                  <= MAX_FULL_CONNECTION_ATTEMPTS * MAX_CONNECTION_ATTEMPTS
            /\ WifiRank >= 0)
    /\ [][WifiStep => (InSetupWiFi' => WifiRank' < WifiRank)]_vars
    /\ [][(WifiStep /\ pc = "wifi_poll" /\ wifiStatus = "WL_CONNECTED")
             => (pc' = "wifi_check" /\ attempts' = attempts)]_vars
    /\ [][(WifiStep /\ pc = "wifi_check" /\ wifiStatus = "WL_CONNECTED")
             => pc' = "loop_top"]_vars

\* C10 witness: the link came up in the middle of the last cycle and the
\* check of line 304 is about to return.
C10_Witness ==
    /\ pc = "wifi_check"
    /\ wifiStatus = "WL_CONNECTED"
    /\ fullAttempt = MAX_FULL_CONNECTION_ATTEMPTS - 1
    /\ attempts \in 1..(MAX_CONNECTION_ATTEMPTS - 1)

\* inside loop(), sendWebhookRequest and goToSleep excluded
InLoop ==
    pc \in {"loop_top", "loop_portal", "loop_elif", "disp_guard", "disp_load",
            "disp_store", "disp_after", "idle_guard", "idle_read",
            "idle_cmp_millis_first", "idle_cmp_load_first"}

\* setup() has returned and the device neither sleeps nor restarts
SetupReturned ==
    \/ InLoop
    \/ InDispatch
    \/ pc \in {"send_enter", "sleep_detach", "sleep_wakeup", "sleep_start"}

\* the captive portal: access-point mode with the DNS and the web server started
PortalUp == wifiMode = "WIFI_MODE_AP" /\ dnsStarted /\ serverStarted

\* station mode, no portal
StationOnly == wifiMode = "WIFI_MODE_STA" /\ ~dnsStarted /\ ~serverStarted

\* C11: setupWiFi is left in exactly two ways: to loop() in station mode on a
\* status read as connected, or, once the three cycles are used up, to
\* setupAP, which then starts the access point with the DNS and the web
\* server and goes on to loop(); it never restarts the device, and after
\* setup() the device is in exactly one of station mode without portal and
\* access-point mode with the portal up.
C11_FallbackToPortal ==
    /\ [][(InSetupWiFi /\ ~InSetupWiFi')
            => \/ /\ pc' = "loop_top"
                  /\ wifiStatus = "WL_CONNECTED"
                  /\ StationOnly'
               \/ /\ pc' = "ap_setup"
                  /\ fullAttempt = MAX_FULL_CONNECTION_ATTEMPTS]_vars
    /\ [][(pc = "ap_setup" /\ pc' # pc) => (pc' = "loop_top" /\ PortalUp')]_vars
    /\ [](SetupReturned => (StationOnly /\ ~PortalUp) \/ (PortalUp /\ ~StationOnly))

\* C11 witness: the third cycle ended without a connection and setupWiFi
\* handed over to setupAP.
C11_Witness ==
    /\ pc = "ap_setup"
    /\ wifiMode = "WIFI_MODE_STA"
    /\ fullAttempt = MAX_FULL_CONNECTION_ATTEMPTS
    /\ ~dnsStarted /\ ~serverStarted

\* C12: a dispatch consumes its event whatever the outcome of the HTTP call:
\* when sendWebhookRequest returns, with an error (-1), a 500 or a 200 alike,
\* pendingRequests is what it was, requestInProgress is false and loop() goes
\* on after line 238; line 241 leaves pendingRequests alone too, and no event
\* is sent twice: the HTTP requests issued never outnumber the dispatches.
C12_ConsumedWhateverOutcome ==
    /\ [][(pc = "send_done" /\ pc' # pc)
            => /\ pc' = "disp_after"
               /\ pendingRequests' = pendingRequests
               /\ ~requestInProgress'
               /\ requests' = requests
               /\ dispatched' = dispatched]_vars
    /\ [][(pc = "disp_after" /\ pc' # pc)
            => /\ pc' = "idle_guard"
               /\ pendingRequests' = pendingRequests
               /\ requests' = requests
               /\ dispatched' = dispatched]_vars
    /\ [](Len(requests) <= dispatched)

\* C12 witness: the HTTP call of the first dispatch failed while another
\* event waits.
C12_Witness ==
    /\ pc = "send_done"
    /\ httpResponseCode = -1
    /\ dispatched = 1
    /\ Len(requests) = 1
    /\ pendingRequests = 1

(***************************************************************************)
(* The request builder on its own: sendWebhookRequest from its first line  *)
(* to its return, called by the first dispatch of a power cycle that woke  *)
(* on the button and connected, for each stored configuration of           *)
(* HttpConfigs.                                                            *)
(***************************************************************************)
ExampleHeaders ==
    <<"C", "o", "n", "t", "e", "n", "t", "-", "T", "y", "p", "e", ":",
    " ", "a", "p", "p", "l", "i", "c", "a", "t", "i", "o", "n", "/", "j",
    "s", "o", "n", "\n", "\n", "B", "a", "d", " ", "L", "i", "n", "e">>

SpacedHeaders ==
    <<" ", "A", " ", ":", " ", "b", ":", "c", " ", "\r", "\n", "N", "o",
    " ", "C", "o", "l", "o", "n", "\n", "\t", "\n", "B", ":", "2",
    "\n">>

KeylessHeaders ==
    <<"K", ":", "v", "\n", ":", "w", "\n", "L", ":">>

HttpMethods ==
    {GET, POST, <<"p", "o", "s", "t">>, <<"P", "o", "s", "T">>, <<"g", "e", "t">>,
     <<"P", "U", "T">>, <<"P", "O", "S", "T", "S">>, <<"P", "O", "S">>, Empty}
HttpHeaderTexts ==
    {Empty, <<"K", ":", "v">>, <<":", "v">>, <<"K">>, <<"\n", "\n">>,
     ExampleHeaders, SpacedHeaders, KeylessHeaders}
HttpPayloads == {Empty, <<"b">>}
HttpUrls == {Empty, <<"u">>}

HttpConfigs ==
    {[ssid |-> <<"H">>, password |-> <<"s">>, webhookUrl |-> u, webhookMethod |-> m,
      webhookHeaders |-> h, webhookPayload |-> b] :
        u \in HttpUrls, m \in HttpMethods, h \in HttpHeaderTexts, b \in HttpPayloads}

InitHttp ==
    \E c \in HttpConfigs :
        /\ pc = "send_enter"
        /\ now = BootDelay
        /\ ticks = 0
        /\ wakeup_reason = "none"
        /\ buttonState = "none"
        /\ buttonAttached = TRUE
        /\ wakeSource = "ESP_OK"
        /\ prefs = [ssid |-> c.ssid, password |-> c.password, webhook |-> c.webhookUrl,
                    webhook_method |-> c.webhookMethod,
                    webhook_headers |-> c.webhookHeaders,
                    webhook_payload |-> c.webhookPayload]
        /\ cfg = c
        /\ configSaved = FALSE
        /\ pendingRequests = 0
        /\ requestInProgress = FALSE
        /\ lastButtonPressTime = 0
        /\ lastActivityTime = BootDelay
        /\ wifiMode = "WIFI_MODE_STA"
        /\ wifiStatus = "WL_CONNECTED"
        /\ dnsStarted = FALSE
        /\ serverStarted = FALSE
        /\ fullAttempt = 0
        /\ attempts = 0
        /\ currentMode = "WIFI_MODE_STA"
        /\ reg = 0
        /\ tIdle = 0
        /\ enqueued = 1
        /\ dispatched = 1
        /\ lastTriggerAt = -1
        /\ lastAcceptedAt = -1
        /\ httpResponseCode = -1
        /\ requests = <<>>
        /\ portalLog = <<>>
        /\ wakeCalls = 1

NextHttp == SendEnter \/ SendUrl \/ SendHttp \/ SendDone

SpecHttp == InitHttp /\ [][NextHttp]_vars

\* the step that issues an HTTP request, and the request it issues
RequestStep == pc = "send_http" /\ pc' = "send_done"
Issued == requests[Len(requests)]

\* "POST" in every mix of upper and lower case
PostSpellings ==
    {<<a, b, c, d>> : a \in {"p", "P"}, b \in {"o", "O"}, c \in {"s", "S"},
                      d \in {"t", "T"}}

\* C13: the request issued is a POST with webhookPayload as its body exactly
\* when webhookMethod is one of the spellings of "POST"; for every other
\* webhookMethod it is a GET without body, whatever webhookPayload is.
C13_PostOnlyForPost ==
    [][RequestStep
         => /\ Len(requests') = Len(requests) + 1
            /\ IF cfg.webhookMethod \in PostSpellings
               THEN Issued'.method = "POST" /\ Issued'.body = cfg.webhookPayload
               ELSE Issued'.method = "GET" /\ Issued'.body = NoBody]_vars

\* C13 witness: the method is stored as "get" with a payload configured, and
\* the request went out as a GET without body.
C13_Witness ==
    /\ pc = "send_done"
    /\ cfg.webhookMethod = <<"g", "e", "t">>
    /\ cfg.webhookPayload = <<"b">>
    /\ Len(requests) = 1
    /\ Issued.method = "GET"
    /\ Issued.body = NoBody

\* The lines of a text: the pieces between its newlines, in order (a newline
\* at the very end starts no further line).
RECURSIVE Ascending(_)
Ascending(S) ==
    IF S = {} THEN <<>>
    ELSE LET m == CHOOSE x \in S : \A y \in S : x <= y
         IN  <<m>> \o Ascending(S \ {m})

LineStarts(text) ==
    {1} \cup {i + 1 : i \in {j \in 1..Len(text) : text[j] = "\n"}}

LineFrom(text, a) ==
    LET ends == {j \in a..Len(text) : text[j] = "\n"} \cup {Len(text) + 1}
        e == CHOOSE x \in ends : \A y \in ends : x <= y
    IN  SubSeq(text, a, e - 1)

LinesOf(text) ==
    LET starts == Ascending(LineStarts(text))
    IN  [k \in 1..Len(starts) |-> LineFrom(text, starts[k])]

HasColon(line) == \E i \in 1..Len(line) : line[i] = ":"
FirstColon(line) == CHOOSE i \in 1..Len(line) :
                        line[i] = ":" /\ \A j \in 1..(i - 1) : line[j] # ":"

\* the pair a line stands for: what precedes its first colon, what follows it
PairOf(line) ==
    [key |-> Trim(SubSeq(line, 1, FirstColon(line) - 1)),
     value |-> Trim(SubSeq(line, FirstColon(line) + 1, Len(line)))]

\* a line that names a key: its first colon follows some other character
\* that is not whitespace
HasKeyAndColon(line) == HasColon(line) /\ PairOf(line).key # Empty

PairsOf(lines) == [k \in 1..Len(lines) |-> PairOf(lines[k])]

ExamplePairs ==
    <<[key |-> <<"C", "o", "n", "t", "e", "n", "t", "-", "T", "y", "p", "e">>,
       value |-> <<"a", "p", "p", "l", "i", "c", "a", "t", "i", "o", "n", "/",
                   "j", "s", "o", "n">>]>>

\* C14 as stated: the headers added are, in order, one pair for each line of
\* webhookHeaders that contains a colon.
C14_PairPerColonLine ==
    [][RequestStep
         => Issued'.headers = PairsOf(SelectSeq(LinesOf(cfg.webhookHeaders), HasColon))]_vars

\* C14 amended: the headers added are, in order, one pair for each line of
\* webhookHeaders in which a key precedes the first colon, the key and the
\* value trimmed; empty lines, lines without colon and lines whose first
\* colon has nothing but whitespace before it add nothing; for the text
\* "Content-Type: application/json", blank line, "Bad Line" that is the one
\* pair Content-Type -> application/json.
C14_PairPerKeyedLine ==
    [][RequestStep
         => /\ Issued'.headers
                 = PairsOf(SelectSeq(LinesOf(cfg.webhookHeaders), HasKeyAndColon))
            /\ cfg.webhookHeaders = ExampleHeaders
                 => Issued'.headers = ExamplePairs]_vars

\* C14 witness: the request for the text of the example went out with one
\* header.
C14_Witness ==
    /\ pc = "send_done"
    /\ cfg.webhookHeaders = ExampleHeaders
    /\ Len(requests) = 1
    /\ Issued.headers = ExamplePairs

\* the step of loop() in which the portal serves a save request
SaveStep == pc = "loop_portal" /\ pc' # pc /\ portalLog' # <<>>

\* a form without one of the required fields
LacksRequired(form) ==
    \E k \in {"ssid", "password", "webhook"} : form[k] = Absent

\* C15: a save request that lacks ssid, password or webhook is answered with
\* status 400 and changes none of the six stored values, none of the six
\* values in memory and not configSaved, which stays false: loop() goes on
\* without restarting.
C15_RejectedSaveChangesNothing ==
    [][(SaveStep /\ LacksRequired(portalLog'[1].request))
         => /\ portalLog'[1].status = 400
            /\ prefs' = prefs
            /\ cfg' = cfg
            /\ configSaved' = configSaved
            /\ ~configSaved'
            /\ pc' = "loop_top"]_vars

\* C15 witness: the portal of a configured device answered a save request
\* without password.
C15_Witness ==
    /\ pc = "loop_top"
    /\ wifiMode = "WIFI_MODE_AP"
    /\ portalLog = <<[request |-> [FullForm EXCEPT !.password = Absent],
                      status |-> 400]>>
    /\ prefs = HomePrefs
    /\ cfg.password = <<"s">>
    /\ ~configSaved

(***************************************************************************)
(* Progress.  The statements of the idle check and of goToSleep return    *)
(* (delay(1000) is bounded), so the main thread, once it stands at one of  *)
(* them, executes it: weak fairness of IdleStep.  Nothing is assumed of    *)
(* the button, the link, the clock or the rest of the program.  The runs   *)
(* are those of a configured device woken by the button.                   *)
(***************************************************************************)
IdleStep ==
    \/ IdleGuard \/ IdleRead \/ IdleCompare
    \/ SleepDetach \/ SleepWakeup \/ SleepStart

InitFair == PowerOn("ESP_SLEEP_WAKEUP_GPIO", HomePrefs)

FairSpec == InitFair /\ [][Next]_vars /\ WF_vars(IdleStep)

\* SLEEP_TIMEOUT or more has passed since lastActivityTime
Due == now - lastActivityTime >= SLEEP_TIMEOUT

\* the iteration is on its way to sleep: the idle check of lines 246-247 is
\* about to be made, or is being made, with nothing pending, nothing in
\* flight and the timeout reached, or goToSleep is running
OnWayToSleep ==
    \/ pc = "idle_guard" /\ ~requestInProgress /\ pendingRequests = 0 /\ Due
    \/ pc = "idle_read" /\ Due
    \/ pc = "idle_cmp_millis_first" /\ tIdle - lastActivityTime >= SLEEP_TIMEOUT
    \/ pc = "idle_cmp_load_first" /\ now - tIdle >= SLEEP_TIMEOUT
    \/ pc \in {"sleep_detach", "sleep_wakeup", "sleep_start"}

\* C16: an iteration of the connected branch that comes to the idle check
\* with requestInProgress false, pendingRequests 0 and the timeout reached
\* goes to sleep in that iteration: unless buttonISR accepts a trigger, every
\* step from there keeps it on the way to sleep or is the entry into deep
\* sleep (it does not return to the top of loop()), and it does not stay on
\* the way for ever: it reaches deep sleep.
C16_IdleGoesToSleep ==
    /\ [][(OnWayToSleep /\ enqueued' = enqueued)
            => (OnWayToSleep' \/ pc' = "asleep")]_vars
    /\ []<>(~OnWayToSleep)

\* C16 witness: exactly SLEEP_TIMEOUT after the last activity, with the link
\* up, the idle check found nothing to do and the device went to sleep.
C16_Witness ==
    /\ pc = "asleep"
    /\ now - lastActivityTime = SLEEP_TIMEOUT
    /\ wifiStatus = "WL_CONNECTED"
    /\ pendingRequests = 0
    /\ enqueued = dispatched

\* C17: whenever the device is in deep sleep, SLEEP_TIMEOUT or more has
\* passed since the most recent activity: since lastActivityTime (boot, an
\* accepted trigger, a dispatch) and since the latest accepted trigger, for
\* every interleaving of buttonISR with the reads of line 247.
C17_SleepOnlyAfterTimeout ==
    pc = "asleep"
      => /\ now - lastActivityTime >= SLEEP_TIMEOUT
         /\ lastAcceptedAt >= 0 => now - lastAcceptedAt >= SLEEP_TIMEOUT

\* C18: every pending event is dispatched before the device sleeps: in deep
\* sleep pendingRequests is 0 and every unit of work counted since boot (the
\* wake seed, the triggers accepted while connecting, between dispatches and
\* during them) has had its call of sendWebhookRequest.
C18_AllDispatchedBeforeSleep ==
    pc = "asleep" => (pendingRequests = 0 /\ dispatched = enqueued)

\* a step of the main thread
MainMoves == pc' # pc

\* the steps of the dispatch of lines 234-241
Dispatching ==
    pc \in {"disp_load", "disp_store", "send_enter", "send_url", "send_http",
            "send_done", "disp_after"}

\* what C19 says apart from the size of the decrement: the dispatch runs only
\* in the branch of line 230, it starts whenever line 234 finds an event
\* pending and none in flight, it makes one call of sendWebhookRequest, with
\* requestInProgress set from line 557 to the return and lastActivityTime
\* refreshed after it (line 241), then goes on to the idle check without a second
\* dispatch; in access-point mode no step taken inside loop() dispatches or
\* changes pendingRequests.
C19_DispatchShape ==
    /\ [](Dispatching => currentMode = "WIFI_MODE_STA" /\ wifiMode = "WIFI_MODE_STA")
    /\ [](InDispatch => requestInProgress)
    /\ [][(pc = "disp_guard" /\ MainMoves /\ pendingRequests > 0 /\ ~requestInProgress)
            => pc' = "disp_load"]_vars
    /\ [][(dispatched' # dispatched /\ Awake)
            => (pc = "disp_store" /\ pc' = "send_enter"
                /\ dispatched' = dispatched + 1)]_vars
    /\ [][(InDispatch /\ ~InDispatch')
            => (pc' = "disp_after" /\ ~requestInProgress')]_vars
    /\ [][(pc = "disp_after" /\ MainMoves)
            => (pc' = "idle_guard" /\ lastActivityTime' = now)]_vars
    /\ [][(pc \in {"idle_guard", "idle_read", "idle_cmp_millis_first",
                   "idle_cmp_load_first"} /\ MainMoves)
            => ~Dispatching']_vars
    /\ [][(wifiMode = "WIFI_MODE_AP" /\ InLoop /\ InLoop' /\ MainMoves)
            => (pendingRequests' = pendingRequests /\ dispatched' = dispatched
                /\ requests' = requests)]_vars

\* C19: the dispatch queue acts only while connected and on one event per
\* iteration: the decrement of line 235 takes pendingRequests down by exactly
\* one, and the rest is as C19_DispatchShape says.
C19_OneEventPerIteration ==
    /\ [][(pc = "disp_store" /\ MainMoves)
            => pendingRequests' = pendingRequests - 1]_vars
    /\ C19_DispatchShape

\* C20: sleep is entered in the order of goToSleep: the handler is detached
\* (line 625), then the wake source is configured (line 629), then
\* esp_deep_sleep_start is called (line 640), and no step skips one of them;
\* the wake source has been configured once at boot, before loop() runs, and
\* a second time just before the sleep; in deep sleep nothing happens: the
\* only step out of it is the next boot.
C20_SleepEntryOrder ==
    /\ [][(pc' = "sleep_wakeup" /\ MainMoves)
            => (pc = "sleep_detach" /\ ~buttonAttached')]_vars
    /\ [][(pc' = "sleep_start" /\ MainMoves)
            => (pc = "sleep_wakeup" /\ ~buttonAttached
                /\ wakeCalls' = wakeCalls + 1 /\ wakeSource' # "unset")]_vars
    /\ [][(pc' = "asleep" /\ MainMoves) => pc = "sleep_start"]_vars
    /\ [](SetupReturned /\ pc # "sleep_start" => wakeCalls = 1)
    /\ [](pc \in {"sleep_start", "asleep"} => (~buttonAttached /\ wakeCalls = 2))
    /\ [][pc = "asleep" => pc' = "setup_begin"]_vars

\* C20 witness: the device sleeps, woken by the button it would boot again.
C20_Witness ==
    /\ pc = "asleep"
    /\ ~buttonAttached
    /\ wakeCalls = 2
    /\ wakeSource = "ESP_OK"

\* the positions of the main thread: statements of the program, deep sleep
\* and the restart; none of them is a crash or an abort
Positions ==
    {"setup_begin", "setup_attach", "setup_detach", "setup_reattach",
     "setup_wakeup", "setup_load", "setup_mode", "wifi_begin", "wifi_cycle",
     "wifi_poll", "wifi_check", "ap_setup", "loop_top", "loop_portal",
     "loop_elif", "disp_guard", "disp_load", "disp_store", "send_enter",
     "send_url", "send_http", "send_done", "disp_after", "idle_guard",
     "idle_read", "idle_cmp_millis_first", "idle_cmp_load_first",
     "sleep_detach", "sleep_wakeup", "sleep_start", "asleep", "restarting"}

\* C21: a failed esp_deep_sleep_enable_gpio_wakeup stops nothing: at boot the
\* next statements are the load of the configuration and the mode decision,
\* in goToSleep the next statement is esp_deep_sleep_start and the device
\* sleeps, whatever the call returned; the main thread is always at a
\* statement of the program, asleep or restarting.
C21_WakeFailureStopsNothing ==
    /\ [][(pc = "setup_wakeup" /\ MainMoves)
            => (pc' = "setup_load" /\ wakeSource' \in {"ESP_OK", "ESP_FAIL"})]_vars
    /\ [][(pc = "setup_load" /\ MainMoves) => pc' = "setup_mode"]_vars
    /\ [][(pc = "setup_mode" /\ MainMoves) => pc' \in {"ap_setup", "wifi_begin"}]_vars
    /\ [][(pc = "sleep_wakeup" /\ MainMoves)
            => (pc' = "sleep_start" /\ wakeSource' \in {"ESP_OK", "ESP_FAIL"})]_vars
    /\ [][(pc = "sleep_start" /\ MainMoves) => pc' = "asleep"]_vars
    /\ [](pc \in Positions)

\* C21 witness: the call of line 629 failed and the device is in deep sleep.
C21_Witness ==
    /\ pc = "asleep"
    /\ wakeSource = "ESP_FAIL"
    /\ wakeCalls = 2

\* the dispatch of a device that has no webhook URL
NoUrl == cfg.webhookUrl = Empty

\* what C22 says apart from the size of the decrement: with webhookUrl empty
\* sendWebhookRequest returns at line 563 without an HTTP request, with
\* requestInProgress false and pendingRequests as the decrement left it;
\* loop() then refreshes lastActivityTime (line 241) and goes on to the idle
\* check, and no request is ever issued.
C22_EarlyReturnShape ==
    /\ [][(pc = "send_enter" /\ MainMoves)
            => (pc' = "send_url" /\ requestInProgress' /\ lastActivityTime' = now)]_vars
    /\ [][(pc = "send_url" /\ MainMoves /\ NoUrl)
            => /\ pc' = "disp_after"
               /\ ~requestInProgress'
               /\ requests' = requests
               /\ pendingRequests' = pendingRequests
               /\ dispatched' = dispatched]_vars
    /\ [][(pc = "disp_after" /\ MainMoves /\ NoUrl)
            => /\ pc' = "idle_guard"
               /\ lastActivityTime' = now
               /\ pendingRequests' = pendingRequests
               /\ ~requestInProgress']_vars
    /\ [](NoUrl => (requests = <<>> /\ pc \notin {"send_http", "send_done"}))

\* C22: with webhookUrl empty a dispatch takes pendingRequests down by one
\* (line 235), sends no HTTP request and returns with requestInProgress false
\* and lastActivityTime refreshed, as C22_EarlyReturnShape says.
C22_EmptyUrlConsumesEvent ==
    /\ [][(pc = "disp_store" /\ MainMoves /\ NoUrl)
            => pendingRequests' = pendingRequests - 1]_vars
    /\ C22_EarlyReturnShape

\* the value stored for a field of a form: the argument sent, or the empty
\* string, without the whitespace around it
Trimmed(s) == s = Empty \/ (~IsSpace(s[1]) /\ ~IsSpace(s[Len(s)]))

Stripped(form, k) ==
    IF form[k] = Absent THEN Empty
    ELSE CHOOSE t \in {SubSeq(form[k], i, j) : i \in 1..(Len(form[k]) + 1),
                                              j \in 0..Len(form[k])} :
             /\ Trimmed(t)
             /\ \E i \in 0..Len(form[k]), j \in 0..Len(form[k]) :
                   /\ i + Len(t) + j = Len(form[k])
                   /\ SubSeq(form[k], i + 1, i + Len(t)) = t
                   /\ \A n \in (1..i) \cup ((i + Len(t) + 1)..Len(form[k])) :
                         IsSpace(form[k][n])

\* C23: in access-point mode a save request with ssid, password and webhook
\* is answered with 200, stores the six fields trimmed, in the store and in
\* memory, sets configSaved, and loop() restarts in that same iteration;
\* configSaved is never seen set by a later iteration.  A restart happens in
\* no other way, and access-point mode is left only by that restart: until
\* then loop() alternates between its top and the portal branch.
C23_SaveThenRestart ==
    /\ [][(SaveStep /\ ~LacksRequired(portalLog'[1].request))
            => /\ portalLog'[1].status = 200
               /\ prefs' = [k \in Keys |-> Stripped(portalLog'[1].request, k)]
               /\ cfg' = [ssid |-> prefs'.ssid, password |-> prefs'.password,
                          webhookUrl |-> prefs'.webhook,
                          webhookMethod |-> prefs'.webhook_method,
                          webhookHeaders |-> prefs'.webhook_headers,
                          webhookPayload |-> prefs'.webhook_payload]
               /\ configSaved'
               /\ pc' = "restarting"]_vars
    /\ [](configSaved => pc = "restarting")
    /\ [][(pc' = "restarting" /\ MainMoves)
            => (pc = "loop_portal" /\ portalLog' # <<>>
                /\ portalLog'[1].status = 200)]_vars
    /\ [](wifiMode = "WIFI_MODE_AP" => pc \in {"loop_top", "loop_portal", "restarting"})
    /\ [][(wifiMode = "WIFI_MODE_AP" /\ wifiMode' # wifiMode) => pc = "restarting"]_vars

\* C23 witness: the portal stored a form whose network name came with a
\* leading blank, and the device is restarting.
C23_Witness ==
    /\ pc = "restarting"
    /\ wifiMode = "WIFI_MODE_AP"
    /\ configSaved
    /\ portalLog = <<[request |-> FullForm, status |-> 200]>>
    /\ FullForm.ssid = <<" ", "H">>
    /\ prefs = HomePrefs
    /\ cfg.ssid = <<"H">>

\* station mode with the link down
LinkDown == wifiMode = "WIFI_MODE_STA" /\ wifiStatus # "WL_CONNECTED"

\* in goToSleep
GoingToSleep == pc \in {"sleep_detach", "sleep_wakeup", "sleep_start"}

\* C24 as stated: while the link is down in station mode no step of the main
\* thread after setup() dispatches, changes pendingRequests, or enters or
\* continues goToSleep.
C24_NothingWhileLinkDown ==
    [][(LinkDown /\ SetupReturned /\ MainMoves)
         => /\ pendingRequests' = pendingRequests
            /\ dispatched' = dispatched
            /\ requests' = requests
            /\ ~GoingToSleep'
            /\ pc' # "asleep"]_vars

\* C24 amended: the branch is chosen by the reads of WiFi.status() at lines
\* 217 and 230.  An iteration that finds the link down at line 217 takes the
\* portal branch, and one that finds it down at line 230 takes no branch;
\* neither dispatches, changes pendingRequests or goes to sleep, however long
\* the device has been idle, and both return to the top of loop().  The
\* dispatch and the idle check are entered only from line 230 on a status
\* read as connected.
C24_BranchByStatusRead ==
    /\ [][(pc = "loop_top" /\ MainMoves /\ LinkDown) => pc' = "loop_portal"]_vars
    /\ [][(pc = "loop_portal" /\ MainMoves /\ wifiMode = "WIFI_MODE_STA")
            => /\ pc' = "loop_top"
               /\ pendingRequests' = pendingRequests
               /\ dispatched' = dispatched
               /\ requests' = requests]_vars
    /\ [][(pc = "loop_elif" /\ MainMoves /\ LinkDown)
            => /\ pc' = "loop_top"
               /\ pendingRequests' = pendingRequests
               /\ dispatched' = dispatched
               /\ requests' = requests]_vars
    /\ [][(pc' = "disp_guard" /\ MainMoves)
            => (pc = "loop_elif" /\ wifiStatus = "WL_CONNECTED"
                /\ wifiMode = "WIFI_MODE_STA")]_vars
    /\ [][((Dispatching' \/ GoingToSleep' \/ pc' \in {"idle_guard", "idle_read",
             "idle_cmp_millis_first", "idle_cmp_load_first"}) /\ MainMoves)
            => pc \notin {"loop_top", "loop_portal", "loop_elif"}]_vars

\* C24 witness: the link is down, an event is pending and the device has been
\* idle for the whole sleep timeout; loop() is in the portal branch.
C24_Witness ==
    /\ pc = "loop_portal"
    /\ LinkDown
    /\ pendingRequests > 0
    /\ now - lastActivityTime >= SLEEP_TIMEOUT
====
